---- MODULE Spec2Model ----
(***************************************************************************)
(* Model of chatbot_ui.py: the OCR invocation prober safe_call_ocr, the    *)
(* result normalizer parse_paddle_result, and the Streamlit script's       *)
(* conversation history under user interactions.                           *)
(*                                                                         *)
(* Python strings are sequences of one-character strings, so that strip(), *)
(* lower(), substring containment and str() are computed, not assumed.     *)
(***************************************************************************)
EXTENDS Integers, Sequences, FiniteSets, TLC

VARIABLES
    \* ---- st.session_state and widget state of the page
    messages,        \* st.session_state["messages"]: sequence of [role, content]
    uploaded_file,   \* the txt/csv uploader: "none", "text" (utf-8) or "binary"
    uploaded_image,  \* the image uploader: "none", "valid" or "corrupt"
    lastSend,        \* what the last run of the Send handler did (history variable)
    caller,          \* who called safe_call_ocr: "none", "harness" or "extract"
    \* ---- one activation of safe_call_ocr
    pc,              \* position inside safe_call_ocr
    hasPredict,      \* hasattr(model, "predict")
    is_path,         \* the is_path argument
    e1, e2, e3,      \* the exceptions bound by the three except clauses
    pending,         \* outcome of model.ocr(tmp_path) held while finally runs
    ret,             \* what safe_call_ocr returned
    ocrCalls,        \* number of model.ocr calls in this activation
    predictCalls,    \* number of model.predict calls in this activation
    tmpCreated,      \* a temporary file was created in this activation
    tmpExists,       \* that temporary file still exists
    removeTried,     \* os.remove(tmp_path) was attempted in this activation
    \* ---- one application of parse_paddle_result
    raw,             \* the argument
    lines,           \* the returned list
    parse_pc         \* "start" or "done"

appVars   == <<messages, uploaded_file, uploaded_image, lastSend, caller>>
ocrVars   == <<pc, hasPredict, is_path, e1, e2, e3, pending, ret, ocrCalls,
               predictCalls, tmpCreated, tmpExists, removeTried>>
parseVars == <<raw, lines, parse_pc>>
vars      == <<appVars, ocrVars, parseVars>>

(***************************************************************************)
(* Python values.  Every value is a record of the same shape:              *)
(*   t  the type tag, s  the characters of a str, n  the number of an      *)
(*   int/float (for a dict: 1 iff it has the key "rec_texts"),             *)
(*   k  the elements of a list/tuple (for a dict: the rec_texts value).    *)
(***************************************************************************)
PyNone      == [t |-> "none",  s |-> <<>>, n |-> 0, k |-> <<>>]
PyStr(cs)   == [t |-> "str",   s |-> cs,   n |-> 0, k |-> <<>>]
PyNum(i)    == [t |-> "num",   s |-> <<>>, n |-> i, k |-> <<>>]
PyList(xs)  == [t |-> "list",  s |-> <<>>, n |-> 0, k |-> xs]
PyTuple(xs) == [t |-> "tuple", s |-> <<>>, n |-> 0, k |-> xs]
PyDict(v)   == [t |-> "dict",  s |-> <<>>, n |-> 1, k |-> <<v>>]   \* {"rec_texts": v}
PyDictOther == [t |-> "dict",  s |-> <<>>, n |-> 0, k |-> <<>>]    \* {"other": 0}
Raised      == [t |-> "raise", s |-> <<>>, n |-> 0, k |-> <<>>]    \* an exception in flight

Whitespace == {" ", "\n", "\t"}

RECURSIVE LStrip(_)
LStrip(cs) ==
    IF cs # <<>> /\ Head(cs) \in Whitespace THEN LStrip(Tail(cs)) ELSE cs

RECURSIVE RStrip(_)
RStrip(cs) ==
    IF cs # <<>> /\ cs[Len(cs)] \in Whitespace
    THEN RStrip(SubSeq(cs, 1, Len(cs) - 1)) ELSE cs

\* str.strip()
Strip(cs) == RStrip(LStrip(cs))

DigitChar == <<"0", "1", "2", "3", "4", "5", "6", "7", "8", "9">>

\* str(i) for a natural number
RECURSIVE NumStr(_)
NumStr(i) ==
    IF i < 10 THEN <<DigitChar[i + 1]>>
    ELSE NumStr(i \div 10) \o <<DigitChar[(i % 10) + 1]>>

\* bool(v)
Truthy(v) ==
    CASE v.t = "none"  -> FALSE
      [] v.t = "str"   -> v.s # <<>>
      [] v.t = "num"   -> v.n # 0
      [] v.t \in {"list", "tuple"} -> v.k # <<>>
      [] OTHER         -> TRUE

\* repr(v) and the ", "-joined reprs of a sequence of values
RECURSIVE Repr(_), ReprJoin(_)
Repr(v) ==
    CASE v.t = "none"  -> <<"N", "o", "n", "e">>
      [] v.t = "str"   -> <<"'">> \o v.s \o <<"'">>
      [] v.t = "num"   -> NumStr(v.n)
      [] v.t = "list"  -> <<"[">> \o ReprJoin(v.k) \o <<"]">>
      [] v.t = "tuple" -> <<"(">> \o ReprJoin(v.k)
                            \o (IF Len(v.k) = 1 THEN <<",">> ELSE <<>>) \o <<")">>
      [] OTHER         -> IF v.n = 1
                          THEN <<"{", "'", "r", "e", "c", "_", "t", "e", "x", "t", "s",
                                 "'", ":", " ">> \o Repr(v.k[1]) \o <<"}">>
                          ELSE <<"{", "'", "o", "t", "h", "e", "r", "'", ":", " ",
                                 "0", "}">>
ReprJoin(xs) ==
    IF xs = <<>> THEN <<>>
    ELSE IF Len(xs) = 1 THEN Repr(xs[1])
    ELSE Repr(xs[1]) \o <<",", " ">> \o ReprJoin(Tail(xs))

\* str(v)
Str(v) == IF v.t = "str" THEN v.s ELSE Repr(v)

\* v[i] with a 0-based integer index; Raised for TypeError, IndexError, KeyError
Index(v, i) ==
    CASE v.t = "str" ->
            IF i < Len(v.s) THEN PyStr(<<v.s[i + 1]>>) ELSE Raised
      [] v.t \in {"list", "tuple"} ->
            IF i < Len(v.k) THEN v.k[i + 1] ELSE Raised
      [] OTHER -> Raised

\* the elements "for t in v" visits; only asked of an iterable v
Iterable(v) == v.t \in {"str", "list", "tuple", "dict"}
IterItems(v) ==
    CASE v.t = "str"  -> [i \in 1..Len(v.s) |-> PyStr(<<v.s[i]>>)]
      [] v.t = "dict" -> IF v.n = 1
                         THEN <<PyStr(<<"r", "e", "c", "_", "t", "e", "x", "t", "s">>)>>
                         ELSE <<PyStr(<<"o", "t", "h", "e", "r">>)>>
      [] OTHER        -> v.k

(***************************************************************************)
(* parse_paddle_result                                                     *)
(***************************************************************************)

\* variant of ParseRecTexts that appends str(t) without trimming it
RECURSIVE ParseRecTextsUntrimmed(_, _)
ParseRecTextsUntrimmed(ts, acc) ==
    IF ts = <<>> THEN acc
    ELSE LET x == Head(ts) IN
         ParseRecTextsUntrimmed(Tail(ts),
            IF Truthy(x) /\ Strip(Str(x)) # <<>>
            THEN Append(acc, Str(x)) ELSE acc)

\* lines 104-106: the loop over block["rec_texts"]
RECURSIVE ParseRecTexts(_, _)
ParseRecTexts(ts, acc) ==
    IF ts = <<>> THEN acc
    ELSE LET x == Head(ts) IN
         ParseRecTexts(Tail(ts),
            IF Truthy(x) /\ Strip(Str(x)) # <<>>
            THEN Append(acc, Strip(Str(x))) ELSE acc)

\* lines 119-124: the except branch of one item
ParseItemFallback(item, acc) ==
    IF item.t \in {"list", "tuple"} /\ Len(item.k) >= 2
    THEN Append(acc, Str(item.k[1]))
    ELSE acc

\* lines 112-124: one item of a list block
ParseItem(item, acc) ==
    LET second == Index(item, 1)
        text   == IF second.t \in {"list", "tuple"} THEN Index(second, 0) ELSE second
    IN  IF second.t = "raise" \/ text.t = "raise"
        THEN ParseItemFallback(item, acc)
        ELSE IF Truthy(text) /\ Strip(Str(text)) # <<>>
             THEN Append(acc, Strip(Str(text)))
             ELSE acc

\* line 111: the loop over the items of a list block
RECURSIVE ParseItems(_, _)
ParseItems(items, acc) ==
    IF items = <<>> THEN acc
    ELSE ParseItems(Tail(items), ParseItem(Head(items), acc))

\* lines 127-132: a block that is neither a dict nor a list
ParseLeaf(block, acc) ==
    IF Strip(Str(block)) # <<>> THEN Append(acc, Strip(Str(block))) ELSE acc

\* lines 100-132: one block; raised is TRUE when an exception leaves the loop body
ParseBlock(block, acc) ==
    CASE block.t = "dict" ->
            IF block.n = 1
            THEN IF Iterable(block.k[1])
                 THEN [raised |-> FALSE,
                       lines  |-> ParseRecTexts(IterItems(block.k[1]), acc)]
                 ELSE [raised |-> TRUE, lines |-> acc]
            ELSE [raised |-> FALSE, lines |-> acc]
      [] block.t = "list" ->
            [raised |-> FALSE, lines |-> ParseItems(block.k, acc)]
      [] OTHER ->
            [raised |-> FALSE, lines |-> ParseLeaf(block, acc)]

\* line 99: the loop over raw
RECURSIVE ParseBlocks(_, _)
ParseBlocks(blocks, acc) ==
    IF blocks = <<>> THEN [raised |-> FALSE, lines |-> acc]
    ELSE LET r == ParseBlock(Head(blocks), acc) IN
         IF r.raised THEN r ELSE ParseBlocks(Tail(blocks), r.lines)

\* lines 89-136
parse_paddle_result(x) ==
    IF x.t = "none" THEN <<>>
    ELSE IF x.t # "list" THEN <<>>
    ELSE LET r == ParseBlocks(x.k, <<>>) IN
         IF r.raised THEN <<Str(x)>> ELSE r.lines

(***************************************************************************)
(* Inputs of parse_paddle_result: raw results assembled from a small       *)
(* alphabet of blocks covering the three dialects and their malformed      *)
(* variants.                                                               *)
(***************************************************************************)
MaxBlocks == 3

TxtA     == <<" ", "A", " ">>
TxtB     == <<"B">>
TxtBlank == <<" ">>
TxtHello == <<"H", "e", "l", "l", "o">>

\* a bounding box [[0,0],[1,0],[1,1],[0,1]] and a confidence
Box  == PyList(<<PyList(<<PyNum(0), PyNum(0)>>), PyList(<<PyNum(1), PyNum(0)>>),
                 PyList(<<PyNum(1), PyNum(1)>>), PyList(<<PyNum(0), PyNum(1)>>)>>)
Conf == PyNum(1)

\* one per-line entry [box, (text, confidence)]
LineEntry(cs) == PyList(<<Box, PyTuple(<<PyStr(cs), Conf>>)>>)
\* an element whose second item is an empty list: item[1][0] raises IndexError
EmptyPair(cs) == PyTuple(<<PyStr(cs), PyList(<<>>)>>)

ListBlocks ==
    { PyList(<<>>),
      PyList(<<LineEntry(TxtHello)>>),
      PyList(<<LineEntry(TxtA), LineEntry(TxtB)>>),
      PyList(<<LineEntry(<<>>), LineEntry(TxtBlank)>>),
      PyList(<<PyList(<<Box, PyStr(TxtA)>>)>>),
      PyList(<<LineEntry(TxtA), PyNum(5), LineEntry(TxtB)>>),
      PyList(<<PyList(<<Box>>), PyNone, PyDictOther>>),
      PyList(<<EmptyPair(TxtBlank)>>),
      PyList(<<EmptyPair(TxtA), EmptyPair(<<>>)>>),
      LineEntry(TxtHello) }

DictBlocks ==
    { PyDict(PyList(<<PyStr(<<"A">>), PyStr(<<>>), PyStr(<<" ", " ", "B", " ", " ">>)>>)),
      PyDict(PyList(<<PyStr(TxtB)>>)),
      PyDict(PyStr(<<"a", " ">>)),
      PyDict(PyNum(5)),
      PyDict(PyNone),
      PyDictOther }

LeafBlocks ==
    { PyStr(TxtA), PyStr(TxtBlank), PyNone, PyTuple(<<PyStr(TxtB), Conf>>) }

Blocks == ListBlocks \cup DictBlocks \cup LeafBlocks

BlockSeqs == UNION { [1..m -> Blocks] : m \in 0..MaxBlocks }

RawInputs ==
    { PyNone, PyStr(TxtA), PyNum(0) }
        \cup { PyList(bs) : bs \in BlockSeqs }
        \cup { PyTuple(<<b>>) : b \in Blocks }

(***************************************************************************)
(* Idle values of the variables a specification does not exercise.         *)
(***************************************************************************)
NoExc     == "none"
NoOutcome == [ok |-> FALSE, val |-> PyNone, exc |-> NoExc]
NoRet     == [kind |-> "pending", result |-> PyNone, strategy |-> "", errors |-> <<>>]
NoSend    == [ran |-> FALSE, input |-> <<>>, reply |-> <<>>, remote |-> FALSE]

OcrIdle ==
    /\ pc = "idle" /\ is_path = FALSE
    /\ e1 = NoExc /\ e2 = NoExc /\ e3 = NoExc
    /\ pending = NoOutcome /\ ret = NoRet
    /\ ocrCalls = 0 /\ predictCalls = 0
    /\ tmpCreated = FALSE /\ tmpExists = FALSE /\ removeTried = FALSE

AppIdle ==
    /\ messages = <<>> /\ uploaded_file = "none" /\ uploaded_image = "none"
    /\ lastSend = NoSend /\ caller = "none"

ParseIdle == raw = PyNone /\ lines = <<>> /\ parse_pc = "done"

(***************************************************************************)
(* Specification of parse_paddle_result as a function of its input.        *)
(***************************************************************************)
InitParse ==
    /\ raw \in RawInputs /\ lines = <<>> /\ parse_pc = "start"
    /\ AppIdle /\ OcrIdle /\ hasPredict = TRUE

Parse ==
    /\ parse_pc = "start"
    /\ lines' = parse_paddle_result(raw)
    /\ parse_pc' = "done"
    /\ UNCHANGED <<raw, appVars, ocrVars>>

NextParse == Parse

SpecParse == InitParse /\ [][NextParse]_vars

(***************************************************************************)
(* safe_call_ocr, one action per statement that can act on the engine or   *)
(* the file system.  An engine call either returns a value or raises an    *)
(* Exception instance; ret.kind is "triple" for a returned 3-tuple,        *)
(* "bare_none" when the function falls off its end (Python returns None),  *)
(* and "raised" when an exception leaves the function.                     *)
(***************************************************************************)
Excs == {"ErrA", "ErrB"}

RawHello  == PyList(<<PyList(<<LineEntry(TxtHello)>>)>>)
RawNoText == PyList(<<PyList(<<>>)>>)

\* what model.ocr / model.predict can hand back
OcrResults == {PyNone, RawHello, RawNoText}

EngineOutcomes ==
    { [ok |-> TRUE, val |-> v, exc |-> NoExc] : v \in OcrResults }
        \cup { [ok |-> FALSE, val |-> PyNone, exc |-> e] : e \in Excs }

Triple(result, strategy, errors) ==
    [kind |-> "triple", result |-> result, strategy |-> strategy, errors |-> errors]
BareNone     == [kind |-> "bare_none", result |-> PyNone, strategy |-> "", errors |-> <<>>]
Escaped(e)   == [kind |-> "raised", result |-> PyNone, strategy |-> "", errors |-> <<e>>]

\* entry: the arguments are bound and the locals are fresh
Enter(who, path) ==
    /\ pc = "idle" /\ caller = "none"
    /\ caller' = who
    /\ pc' = "primary" /\ is_path' = path
    /\ e1' = NoExc /\ e2' = NoExc /\ e3' = NoExc
    /\ pending' = NoOutcome /\ ret' = NoRet
    /\ ocrCalls' = 0 /\ predictCalls' = 0
    /\ tmpCreated' = FALSE /\ tmpExists' = FALSE /\ removeTried' = FALSE
    /\ UNCHANGED hasPredict

\* variant of Primary whose success branch lacks the return statement
PrimaryWithoutReturn ==
    /\ pc = "primary"
    /\ \E o \in EngineOutcomes :
         /\ ocrCalls' = ocrCalls + 1
         /\ e1' = IF o.ok THEN e1 ELSE o.exc
    /\ pc' = "alternate"
    /\ UNCHANGED <<hasPredict, is_path, e2, e3, pending, ret, predictCalls,
                   tmpCreated, tmpExists, removeTried, appVars, parseVars>>

\* lines 57-63: model.ocr(img_arg)
Primary ==
    /\ pc = "primary"
    /\ \E o \in EngineOutcomes :
         /\ ocrCalls' = ocrCalls + 1
         /\ IF o.ok
            THEN /\ ret' = Triple(o.val, "ocr(img)", <<>>)
                 /\ pc' = "returned"
                 /\ e1' = e1
            ELSE /\ e1' = o.exc
                 /\ pc' = "alternate"
                 /\ ret' = ret
    /\ UNCHANGED <<hasPredict, is_path, e2, e3, pending, predictCalls,
                   tmpCreated, tmpExists, removeTried, appVars, parseVars>>

\* lines 65-71 and 87: model.predict(img_arg) when the engine has it; without
\* it the inner try ends normally, the except clause of line 63 ends, and the
\* function falls off its end
Alternate ==
    /\ pc = "alternate"
    /\ IF hasPredict
       THEN \E o \in EngineOutcomes :
              /\ predictCalls' = predictCalls + 1
              /\ IF o.ok
                 THEN /\ ret' = Triple(o.val, "predict(img)", <<>>)
                      /\ pc' = "returned"
                      /\ e2' = e2
                 ELSE /\ e2' = o.exc
                      /\ IF is_path
                         THEN /\ ret' = Triple(PyNone, "failed_all", <<e1, o.exc>>)
                              /\ pc' = "returned"
                         ELSE /\ ret' = ret
                              /\ pc' = "tmpfile"
       ELSE /\ ret' = BareNone
            /\ pc' = "returned"
            /\ UNCHANGED <<predictCalls, e2>>
    /\ UNCHANGED <<hasPredict, is_path, e1, e3, pending, ocrCalls,
                   tmpCreated, tmpExists, removeTried, appVars, parseVars>>

\* line 74: tempfile.NamedTemporaryFile(delete=False, suffix=".png")
TmpFile ==
    /\ pc = "tmpfile"
    /\ \/ /\ tmpCreated' = TRUE /\ tmpExists' = TRUE
          /\ pc' = "save"
          /\ UNCHANGED <<e3, ret>>
       \/ \E e \in Excs :
            /\ e3' = e
            /\ ret' = Triple(PyNone, "failed_all", <<e1, e2, e>>)
            /\ pc' = "returned"
            /\ UNCHANGED <<tmpCreated, tmpExists>>
    /\ UNCHANGED <<hasPredict, is_path, e1, e2, pending, ocrCalls, predictCalls,
                   removeTried, appVars, parseVars>>

\* lines 75-76 and 85-86: Image.fromarray(img_arg).save(tmp_path); a raise
\* leaves the with block (which closes the file, delete=False) and is caught
\* at line 85, outside the try/finally of lines 77-84
Save ==
    /\ pc = "save"
    /\ \/ /\ pc' = "pathcall"
          /\ UNCHANGED <<e3, ret>>
       \/ \E e \in Excs :
            /\ e3' = e
            /\ ret' = Triple(PyNone, "failed_all", <<e1, e2, e>>)
            /\ pc' = "returned"
    /\ UNCHANGED <<hasPredict, is_path, e1, e2, pending, ocrCalls, predictCalls,
                   tmpCreated, tmpExists, removeTried, appVars, parseVars>>

\* line 78: model.ocr(tmp_path); its outcome waits for the finally clause
PathCall ==
    /\ pc = "pathcall"
    /\ \E o \in EngineOutcomes :
         /\ ocrCalls' = ocrCalls + 1
         /\ pending' = o
    /\ pc' = "cleanup"
    /\ UNCHANGED <<hasPredict, is_path, e1, e2, e3, ret, predictCalls,
                   tmpCreated, tmpExists, removeTried, appVars, parseVars>>

\* variant of Cleanup without the except clause of line 85: the exception
\* of model.ocr(tmp_path) leaves the function after the finally clause
CleanupUncaught ==
    /\ pc = "cleanup"
    /\ removeTried' = TRUE
    /\ \E removed \in BOOLEAN : tmpExists' = ~removed
    /\ IF pending.ok
       THEN /\ ret' = Triple(pending.val, "ocr(path)", <<>>)
            /\ e3' = e3
       ELSE /\ e3' = e3
            /\ ret' = Escaped(pending.exc)
    /\ pc' = "returned"
    /\ UNCHANGED <<hasPredict, is_path, e1, e2, pending, ocrCalls, predictCalls,
                   tmpCreated, appVars, parseVars>>

\* lines 79-86: the finally clause runs os.remove(tmp_path), whose failure is
\* swallowed; then the pending return or the pending exception proceeds
Cleanup ==
    /\ pc = "cleanup"
    /\ removeTried' = TRUE
    /\ \E removed \in BOOLEAN : tmpExists' = ~removed
    /\ IF pending.ok
       THEN /\ ret' = Triple(pending.val, "ocr(path)", <<>>)
            /\ e3' = e3
       ELSE /\ e3' = pending.exc
            /\ ret' = Triple(PyNone, "failed_all", <<e1, e2, pending.exc>>)
    /\ pc' = "returned"
    /\ UNCHANGED <<hasPredict, is_path, e1, e2, pending, ocrCalls, predictCalls,
                   tmpCreated, appVars, parseVars>>

\* the statements of safe_call_ocr
safe_call_ocr == Primary \/ Alternate \/ TmpFile \/ Save \/ PathCall \/ Cleanup

(***************************************************************************)
(* Specification of safe_call_ocr called with either value of is_path on   *)
(* an engine with or without predict.                                      *)
(***************************************************************************)
InitOcr ==
    /\ OcrIdle /\ hasPredict \in BOOLEAN
    /\ AppIdle /\ ParseIdle

CallOcr ==
    /\ \E path \in BOOLEAN : Enter("harness", path)
    /\ UNCHANGED <<messages, uploaded_file, uploaded_image, lastSend, parseVars>>

ReturnOcr ==
    /\ pc = "returned" /\ caller = "harness"
    /\ pc' = "idle" /\ caller' = "none"
    /\ UNCHANGED <<messages, uploaded_file, uploaded_image, lastSend, parseVars,
                   hasPredict, is_path, e1, e2, e3, pending, ret, ocrCalls,
                   predictCalls, tmpCreated, tmpExists, removeTried>>

NextOcr ==
    \/ CallOcr
    \/ Primary
    \/ Alternate
    \/ TmpFile
    \/ Save
    \/ PathCall
    \/ Cleanup
    \/ ReturnOcr

SpecOcr == InitOcr /\ [][NextOcr]_vars

(***************************************************************************)
(* The page script.  Streamlit runs the whole script once per user         *)
(* interaction; a button is TRUE only in the run its click started, and    *)
(* st.rerun() ends the current run and starts another with no button       *)
(* pressed.  Uploader widgets keep their file from run to run.  Message    *)
(* contents are sequences of text chunks: single characters for typed      *)
(* text, whole literals for the fixed parts of a reply.                    *)
(***************************************************************************)
MaxHistory == 2
PreviewLen == 500

Msg(role, content) == [role |-> role, content |-> content]

\* the decoded content of the uploaded utf-8 file
FileContent == <<"x", ",", "y">>

Prefix(cs, m) == SubSeq(cs, 1, IF Len(cs) < m THEN Len(cs) ELSE m)

\* lines 36-43: the txt/csv upload block, executed by every run of the script
FileBlock(file, msgs) ==
    IF file = "text"
    THEN Append(msgs, Msg("assistant",
            <<"File uploaded. Preview:\n">> \o Prefix(FileContent, PreviewLen) \o <<"...">>))
    ELSE msgs

\* lines 167-176, in definition order
responses ==
    << [key |-> <<"h", "e", "l", "l", "o">>, value |-> <<"Hello! How can I assist you?">>],
       [key |-> <<"h", "i">>,                value |-> <<"Hi there! What can I do for you?">>],
       [key |-> <<"h", "o", "w", " ", "a", "r", "e", " ", "y", "o", "u">>,
                                             value |-> <<"I'm just a program, but I'm doing great!">>],
       [key |-> <<"y", "o", "u", "r", " ", "n", "a", "m", "e">>,
                                             value |-> <<"I'm Gemma 3 Chatbot, created using Streamlit!">>],
       [key |-> <<"t", "i", "m", "e">>,      value |-> <<"The current time is ", "%H:%M:%S", ".">>],
       [key |-> <<"d", "a", "t", "e">>,      value |-> <<"Today's date is ", "%Y-%m-%d", ".">>],
       [key |-> <<"b", "y", "e">>,           value |-> <<"Goodbye! Have a nice day.">>],
       [key |-> <<"t", "h", "a", "n", "k", "s">>, value |-> <<"You're welcome!">>] >>

UpperChars == <<"A", "B", "C", "D", "E", "F", "G", "H", "I", "J", "K", "L", "M",
                "N", "O", "P", "Q", "R", "S", "T", "U", "V", "W", "X", "Y", "Z">>
LowerChars == <<"a", "b", "c", "d", "e", "f", "g", "h", "i", "j", "k", "l", "m",
                "n", "o", "p", "q", "r", "s", "t", "u", "v", "w", "x", "y", "z">>

\* str.lower()
LowerChar(c) ==
    IF \E i \in 1..Len(UpperChars) : UpperChars[i] = c
    THEN LowerChars[CHOOSE i \in 1..Len(UpperChars) : UpperChars[i] = c]
    ELSE c
Lower(cs) == [i \in 1..Len(cs) |-> LowerChar(cs[i])]

\* k in text
Contains(k, text) ==
    \E i \in 1..(Len(text) - Len(k) + 1) : SubSeq(text, i, i + Len(k) - 1) = k

\* ch.isdigit()
IsDigit(c) == \E i \in 1..Len(DigitChar) : DigitChar[i] = c
DigitVal(c) == (CHOOSE i \in 1..Len(DigitChar) : DigitChar[i] = c) - 1
HasDigit(cs) == \E i \in 1..Len(cs) : IsDigit(cs[i])

\* eval(user_input) for typed text made of digits, "+", blanks and letters
\* that name nothing: a sum of decimal literals with optional unary plus
\* signs has its value, anything else raises.
\* st is "start" (an operand is due), "zero" (inside a literal of zeros),
\* "num" (inside a literal), "after" (blanks after a literal).
RECURSIVE EvalFrom(_, _, _, _)
EvalFrom(cs, st, cur, acc) ==
    IF cs = <<>>
    THEN IF st = "start" THEN [ok |-> FALSE, val |-> 0]
         ELSE [ok |-> TRUE, val |-> acc + cur]
    ELSE LET c == Head(cs) rest == Tail(cs) IN
         CASE c \in {" ", "\t"} ->
                EvalFrom(rest, IF st = "start" THEN "start" ELSE "after", cur, acc)
           [] c = "+" ->
                IF st = "start" THEN EvalFrom(rest, "start", 0, acc)
                ELSE EvalFrom(rest, "start", 0, acc + cur)
           [] IsDigit(c) ->
                CASE st = "start" ->
                        EvalFrom(rest, IF c = "0" THEN "zero" ELSE "num", DigitVal(c), acc)
                  [] st = "zero" ->
                        IF c = "0" THEN EvalFrom(rest, "zero", 0, acc)
                        ELSE [ok |-> FALSE, val |-> 0]
                  [] st = "num" ->
                        EvalFrom(rest, "num", cur * 10 + DigitVal(c), acc)
                  [] OTHER -> [ok |-> FALSE, val |-> 0]
           [] OTHER -> [ok |-> FALSE, val |-> 0]

Eval(cs) ==
    IF LStrip(cs) = <<>> THEN [ok |-> FALSE, val |-> 0]
    ELSE EvalFrom(cs, "start", 0, 0)

\* what requests.post can do (lines 188-197)
OllamaOutcomes == {"answer", "no_response_field", "http_error", "exception"}

\* lines 186-197
ask_ollama(prompt, outcome) ==
    CASE outcome = "answer"            -> <<"<completion of> ">> \o prompt
      [] outcome = "no_response_field" -> <<>>
      [] outcome = "http_error"        -> <<"Error: ", "500", " ", "<body>">>
      [] OTHER                         -> <<"Ollama error: ", "<exception>">>

\* lines 204-207: the first key, in table order from index i, contained in text
RECURSIVE TableLookup(_, _)
TableLookup(i, text) ==
    IF i > Len(responses) THEN [none |-> TRUE, content |-> <<>>]
    ELSE IF Contains(responses[i].key, text)
         THEN [none |-> FALSE, content |-> responses[i].value]
         ELSE TableLookup(i + 1, text)

\* variant of LocalReply that tries the expression before the table
LocalReplyDigitsFirst(user_input) ==
    LET text   == Strip(Lower(user_input))
        canned == TableLookup(1, text)
    IN  IF HasDigit(text)
        THEN [none    |-> FALSE,
              content |-> IF Eval(user_input).ok
                          THEN NumStr(Eval(user_input).val)
                          ELSE <<"Couldn't evaluate expression.">>]
        ELSE canned

\* lines 202-212: the reply found without the remote endpoint, if any
LocalReply(user_input) ==
    LET text   == Strip(Lower(user_input))
        canned == TableLookup(1, text)
    IN  IF canned.none /\ HasDigit(text)
        THEN [none    |-> FALSE,
              content |-> IF Eval(user_input).ok
                          THEN NumStr(Eval(user_input).val)
                          ELSE <<"Couldn't evaluate expression.">>]
        ELSE canned

UserInputs ==
    { <<>>,
      <<" ", " ">>,
      <<"H", "i">>,
      <<"t", "h", "i", "s">>,
      <<"h", "i", " ", "h", "e", "l", "l", "o">>,
      <<"b", "y", "e", " ", "2">>,
      <<"1", "+", "1">>,
      <<"1", "+">>,
      <<"o", "k">> }

(***************************************************************************)
(* User interactions.  Each action is the script run the interaction       *)
(* starts, together with the run that st.rerun() starts after it.          *)
(***************************************************************************)
Quiet == pc = "idle" /\ caller = "none"
Room  == Len(messages) < MaxHistory

\* choosing or removing a file in the txt/csv uploader (lines 35-43)
UploadFile ==
    /\ Quiet /\ Room
    /\ \E f \in {"none", "text", "binary"} :
         /\ f # uploaded_file
         /\ uploaded_file' = f
         /\ messages' = FileBlock(f, messages)
    /\ UNCHANGED <<uploaded_image, lastSend, caller, ocrVars, parseVars>>

\* choosing or removing a file in the image uploader (lines 46, 138-140)
UploadImage ==
    /\ Quiet /\ Room
    /\ \E i \in {"none", "valid", "corrupt"} :
         /\ i # uploaded_image
         /\ uploaded_image' = i
    /\ messages' = FileBlock(uploaded_file, messages)
    /\ UNCHANGED <<uploaded_file, lastSend, caller, ocrVars, parseVars>>

\* lines 27-29, then the rerun
ClearChat ==
    /\ Quiet
    /\ messages' = FileBlock(uploaded_file, <<>>)
    /\ UNCHANGED <<uploaded_file, uploaded_image, lastSend, caller, ocrVars, parseVars>>

\* lines 30-32, then the rerun, whose lines 16-17 recreate the empty history;
\* "messages" is the only key the script keeps in st.session_state
ResetApp ==
    /\ Quiet
    /\ messages' = FileBlock(uploaded_file, <<>>)
    /\ UNCHANGED <<uploaded_file, uploaded_image, lastSend, caller, ocrVars, parseVars>>

\* lines 201-216: user message, reply, assistant message, then the rerun
Answer(user_input, content, remote) ==
    /\ messages' = FileBlock(uploaded_file,
          Append(Append(FileBlock(uploaded_file, messages), Msg("user", user_input)),
                 Msg("assistant", content)))
    /\ lastSend' = [ran |-> TRUE, input |-> user_input,
                    reply |-> content, remote |-> remote]

\* lines 199-216: the run started by Send with user_input in the text box.
\* Image.open at line 139 raises on a corrupt image and ends the run before
\* the Send handler.
Send(user_input) ==
    /\ Quiet /\ Room
    /\ IF uploaded_image = "corrupt" \/ Strip(user_input) = <<>>
       THEN /\ messages' = FileBlock(uploaded_file, messages)
            /\ lastSend' = lastSend
       ELSE LET local == LocalReply(user_input) IN
            IF ~local.none
            THEN Answer(user_input, local.content, FALSE)
            ELSE \E outcome \in OllamaOutcomes :
                    Answer(user_input, ask_ollama(user_input, outcome), TRUE)
    /\ UNCHANGED <<uploaded_file, uploaded_image, caller, ocrVars, parseVars>>

SendAny == \E user_input \in UserInputs : Send(user_input)

\* lines 138-146: the run started by Extract Text, up to the call
ExtractTextClick ==
    /\ Quiet /\ Room
    /\ uploaded_image = "valid"
    /\ messages' = FileBlock(uploaded_file, messages)
    /\ Enter("extract", FALSE)
    /\ UNCHANGED <<uploaded_file, uploaded_image, lastSend, parseVars>>

\* "\n".join(texts)
RECURSIVE JoinLines(_)
JoinLines(ts) ==
    IF ts = <<>> THEN <<>>
    ELSE IF Len(ts) = 1 THEN ts[1]
    ELSE ts[1] \o <<"\n">> \o JoinLines(Tail(ts))

\* lines 146-165: unpacking the returned value and reporting; unpacking a
\* bare None raises TypeError, which ends the run
ExtractTextFinish ==
    /\ pc = "returned" /\ caller = "extract"
    /\ pc' = "idle" /\ caller' = "none"
    /\ IF ret.kind # "triple" \/ ret.result = PyNone
       THEN messages' = messages
       ELSE LET texts == parse_paddle_result(ret.result) IN
            IF texts # <<>>
            THEN messages' = Append(messages,
                    Msg("assistant", <<"OCR Result:\n">> \o JoinLines(texts)))
            ELSE messages' = Append(messages,
                    Msg("assistant", <<"OCR Result: [no readable text]">>))
    /\ UNCHANGED <<uploaded_file, uploaded_image, lastSend, parseVars,
                   hasPredict, is_path, e1, e2, e3, pending, ret, ocrCalls,
                   predictCalls, tmpCreated, tmpExists, removeTried>>

Init ==
    /\ AppIdle /\ OcrIdle /\ hasPredict \in BOOLEAN /\ ParseIdle

Next ==
    \/ UploadFile
    \/ UploadImage
    \/ ClearChat
    \/ ResetApp
    \/ SendAny
    \/ ExtractTextClick
    \/ Primary
    \/ Alternate
    \/ TmpFile
    \/ Save
    \/ PathCall
    \/ Cleanup
    \/ ExtractTextFinish

Spec == Init /\ [][Next]_vars

(***************************************************************************)
(* Properties of safe_call_ocr, checked under SpecOcr.                     *)
(***************************************************************************)
PathCallRaised == pending.exc # NoExc

\* C1: no exception leaves safe_call_ocr: every statement that can raise
\* has a continuation inside the function, the function ends by returning,
\* and when the primary call, the predict call and the path-based retry all
\* raised it returns (None, "failed_all", (e1, e2, e3)) with the three
\* captured exceptions.
C1_NoExceptionEscapes ==
    /\ pc \in {"primary", "alternate", "tmpfile", "save", "pathcall", "cleanup"}
          => ENABLED safe_call_ocr
    /\ pc = "returned" =>
          /\ ret.kind \in {"triple", "bare_none"}
          /\ (e1 # NoExc /\ e2 # NoExc /\ PathCallRaised) =>
                /\ ret = Triple(PyNone, "failed_all", <<e1, e2, pending.exc>>)
                /\ e3 = pending.exc

\* C1 witness: all three attempts raised and safe_call_ocr returned failed_all
C1_Witness ==
    /\ pc = "returned" /\ e1 # NoExc /\ e2 # NoExc /\ PathCallRaised
    /\ ret.strategy = "failed_all" /\ Len(ret.errors) = 3

\* C2: every return of safe_call_ocr is a triple in which exactly one of
\* "result is not None" and "strategy is failed_all" holds.
C2_Claim ==
    pc = "returned" =>
        /\ ret.kind = "triple"
        /\ (ret.result # PyNone) # (ret.strategy = "failed_all")

\* C3: a temporary file created by safe_call_ocr has had its deletion
\* attempted by the time safe_call_ocr returns.
C3_Claim ==
    (pc = "returned" /\ tmpCreated) => removeTried

\* C4: the strategies run in the order primary, alternate, path-based and
\* stop at the first success: predict is called only after the primary call
\* raised, a temporary file is created only after both raised; a successful
\* primary call returns "ocr(img)" after exactly one model.ocr call, no
\* predict call and no temporary file; a raising primary call followed by a
\* successful predict returns "predict(img)" with no temporary file.
C4_FixedOrder ==
    /\ predictCalls > 0 => (e1 # NoExc /\ ocrCalls >= 1)
    /\ tmpCreated => (e1 # NoExc /\ e2 # NoExc /\ predictCalls = 1)
    /\ (pc = "returned" /\ e1 = NoExc) =>
          /\ ret.kind = "triple" /\ ret.strategy = "ocr(img)"
          /\ predictCalls = 0 /\ ~tmpCreated /\ ocrCalls = 1
    /\ (pc = "returned" /\ e1 # NoExc /\ predictCalls = 1 /\ e2 = NoExc) =>
          /\ ret.kind = "triple" /\ ret.strategy = "predict(img)"
          /\ ~tmpCreated /\ ocrCalls = 1

\* C4 witness: the primary call raised, predict succeeded, and the call returned
C4_Witness ==
    /\ pc = "returned" /\ e1 # NoExc /\ predictCalls = 1 /\ e2 = NoExc
    /\ ret.strategy = "predict(img)" /\ ret.result = RawHello

\* C9: after the primary call raised, an engine without predict is treated
\* like one whose predict raised: with an in-memory image the path-based
\* retry is started, and with a path the triple (None, "failed_all", errors)
\* is returned.
C9_Claim ==
    (pc = "returned" /\ e1 # NoExc /\ ~hasPredict) =>
        IF is_path
        THEN ret.kind = "triple" /\ ret.result = PyNone /\ ret.strategy = "failed_all"
        ELSE tmpCreated \/ e3 # NoExc

(***************************************************************************)
(* Properties of parse_paddle_result, checked under SpecParse.             *)
(***************************************************************************)
NonEmpty(cs) == cs # <<>>

\* the trimmed, non-empty members of a sequence of texts, in order
Clean(ts) == SelectSeq([i \in 1..Len(ts) |-> Strip(ts[i])], NonEmpty)

RECURSIVE IsSubseq(_, _)
IsSubseq(a, b) ==
    IF a = <<>> THEN TRUE
    ELSE IF b = <<>> THEN FALSE
    ELSE IF Head(a) = Head(b) THEN IsSubseq(Tail(a), Tail(b))
    ELSE IsSubseq(a, Tail(b))

\* a per-line entry: a bounding box and a (text, confidence) pair
IsLineEntry(x) ==
    /\ x.t \in {"list", "tuple"} /\ Len(x.k) = 2
    /\ x.k[1].t = "list"
    /\ x.k[2].t \in {"list", "tuple"} /\ Len(x.k[2].k) = 2
    /\ x.k[2].k[1].t = "str" /\ x.k[2].k[2].t = "num"
EntryText(x) == x.k[2].k[1].s

IsEntryBlock(b) == b.t = "list" /\ \A i \in 1..Len(b.k) : IsLineEntry(b.k[i])
IsRecBlock(b) ==
    /\ b.t = "dict" /\ b.n = 1 /\ b.k[1].t = "list"
    /\ \A i \in 1..Len(b.k[1].k) : b.k[1].k[i].t = "str"
IsLeafBlock(b) == b.t \in {"none", "str", "num", "tuple"}

\* the hand parse of one block: the texts of its well-formed parts
RECURSIVE EntryTexts(_)
EntryTexts(items) ==
    IF items = <<>> THEN <<>>
    ELSE (IF IsLineEntry(Head(items)) THEN <<EntryText(Head(items))>> ELSE <<>>)
            \o EntryTexts(Tail(items))

HandParseBlock(b) ==
    CASE b.t = "list"   -> EntryTexts(b.k)
      [] IsRecBlock(b)  -> [i \in 1..Len(b.k[1].k) |-> b.k[1].k[i].s]
      [] IsLeafBlock(b) -> <<Str(b)>>
      [] OTHER          -> <<>>

RECURSIVE HandParse(_)
HandParse(blocks) ==
    IF blocks = <<>> THEN <<>>
    ELSE HandParseBlock(Head(blocks)) \o HandParse(Tail(blocks))

ExampleFlat   == PyList(<<LineEntry(TxtHello)>>)
ExampleNested == RawHello
ExampleRec    ==
    PyList(<<PyDict(PyList(<<PyStr(<<"A">>), PyStr(<<>>),
                              PyStr(<<" ", " ", "B", " ", " ">>)>>))>>)

\* C5: every element of the returned list is a non-empty string without
\* leading or trailing whitespace.
C5_Claim ==
    parse_pc = "done" =>
        \A i \in 1..Len(lines) : lines[i] # <<>> /\ Strip(lines[i]) = lines[i]

\* C6: a malformed sub-structure is skipped locally: the texts of the
\* well-formed entries and elements of the raw list are all present in the
\* output, in their original order.
C6_Claim ==
    (parse_pc = "done" /\ raw.t = "list") =>
        IsSubseq(Clean(HandParse(raw.k)), lines)

\* C7 as stated: a sequence of per-line entries [box, (text, confidence)], a
\* sequence of rec_texts mappings, and an opaque leaf each give the hand
\* parse; [[box, ("Hello", c)]] gives ["Hello"], [{"rec_texts": ["A", "",
\* "  B  "]}] gives ["A", "B"], None gives [].
C7_Original ==
    parse_pc = "done" =>
        /\ (raw.t = "list" /\ \A i \in 1..Len(raw.k) : IsLineEntry(raw.k[i])) =>
              lines = Clean([i \in 1..Len(raw.k) |-> EntryText(raw.k[i])])
        /\ (raw.t = "list" /\ \A i \in 1..Len(raw.k) : IsRecBlock(raw.k[i])) =>
              lines = Clean(HandParse(raw.k))
        /\ raw = ExampleFlat => lines = <<TxtHello>>
        /\ raw = ExampleRec => lines = << <<"A">>, <<"B">> >>
        /\ raw = PyNone => lines = <<>>

\* C7 amended: a list of blocks, each block a list of per-line entries
\* [box, (text, confidence)], a rec_texts mapping holding a list of strings,
\* or an opaque leaf, gives exactly the trimmed non-empty texts of the hand
\* parse in iteration order; [[[box, ("Hello", c)]]] gives ["Hello"],
\* [{"rec_texts": ["A", "", "  B  "]}] gives ["A", "B"], None gives [].
C7_Amended ==
    parse_pc = "done" =>
        /\ (raw.t = "list" /\ \A i \in 1..Len(raw.k) :
                IsEntryBlock(raw.k[i]) \/ IsRecBlock(raw.k[i]) \/ IsLeafBlock(raw.k[i])) =>
              lines = Clean(HandParse(raw.k))
        /\ raw = ExampleNested => lines = <<TxtHello>>
        /\ raw = ExampleRec => lines = << <<"A">>, <<"B">> >>
        /\ raw = PyNone => lines = <<>>

\* C7 witness: a raw result mixing the three dialects has been parsed
C7_Witness ==
    /\ parse_pc = "done"
    /\ raw = PyList(<<PyList(<<LineEntry(TxtA), LineEntry(TxtB)>>),
                      PyDict(PyList(<<PyStr(<<"A">>), PyStr(<<>>),
                                      PyStr(<<" ", " ", "B", " ", " ">>)>>)),
                      PyStr(TxtA)>>)
    /\ lines = << <<"A">>, <<"B">>, <<"A">>, <<"B">>, <<"A">> >>

(***************************************************************************)
(* Properties of the page script, checked under Spec.                      *)
(***************************************************************************)
\* C8: the reply of the Send handler is the value of the first table key, in
\* definition order, contained in the lowercased trimmed input; failing that
\* and the input holding a digit, the stringified value of the expression or
\* "Couldn't evaluate expression."; failing that, what ask_ollama gives.
\* ask_ollama runs only when no key matches and no digit is present.
C8_ReplyPriority ==
    lastSend.ran =>
        LET text == Strip(Lower(lastSend.input))
            hits == {i \in 1..Len(responses) : Contains(responses[i].key, text)}
        IN  /\ Strip(lastSend.input) # <<>>
            /\ IF hits # {}
               THEN /\ lastSend.reply =
                         responses[CHOOSE i \in hits : \A j \in hits : i <= j].value
                    /\ ~lastSend.remote
               ELSE IF HasDigit(lastSend.input)
               THEN /\ ~lastSend.remote
                    /\ lastSend.reply =
                         IF Eval(lastSend.input).ok
                         THEN NumStr(Eval(lastSend.input).val)
                         ELSE <<"Couldn't evaluate expression.">>
               ELSE /\ lastSend.remote
                    /\ \E o \in OllamaOutcomes :
                         lastSend.reply = ask_ollama(lastSend.input, o)

\* C8 witness: an input holding both a table key and a digit was answered
C8_Witness ==
    /\ lastSend.ran
    /\ lastSend.input = <<"b", "y", "e", " ", "2">>
    /\ lastSend.reply = <<"Goodbye! Have a nice day.">>
    /\ Len(messages) >= 2
    /\ messages[Len(messages)] = Msg("assistant", lastSend.reply)
    /\ messages[Len(messages) - 1] = Msg("user", lastSend.input)

IsPrefix(a, b) == Len(a) <= Len(b) /\ SubSeq(b, 1, Len(a)) = a

\* C10: the history changes only by appending: Clear Chat and Reset App
\* leave it empty, every other interaction leaves the previous history as a
\* prefix of the new one, Send with blank input leaves it unchanged, and
\* Send with non-blank input ends with the user's message followed by one
\* assistant reply as the last two entries.
C10_Claim ==
    [][ /\ (ClearChat \/ ResetApp) => messages' = <<>>
        /\ ~(ClearChat \/ ResetApp) => IsPrefix(messages, messages')
        /\ \A u \in UserInputs :
              Send(u) =>
                 IF Strip(u) = <<>>
                 THEN messages' = messages
                 ELSE /\ Len(messages') = Len(messages) + 2
                      /\ messages'[Len(messages') - 1] = Msg("user", u)
                      /\ messages'[Len(messages')].role = "assistant"
      ]_vars

====
